---- MODULE Spec2Model ----
(***************************************************************************)
(* Model of the compressed query workflow of                               *)
(* src/src/workflows/compressed-query-graph.ts: the state channels with    *)
(* their reducers, the six node functions, and the graph wiring with its   *)
(* two conditional edges.                                                  *)
(*                                                                         *)
(* pc is the node the graph runs next.  One action models one node run:    *)
(* the node function, the merge of its partial state through the reducers  *)
(* and the choice of the following node by the edge that leaves the node.  *)
(* The capabilities the nodes call (generator, validator, executor, prompt *)
(* formatters) are outside the workflow; their results are drawn from      *)
(* small sets, and every one of them may also throw.                       *)
(***************************************************************************)
EXTENDS Integers, Sequences, FiniteSets, TLC

MAX_RETRIES == 3

\* ------------------------------------------------------------------ bounds
\* length of the message list the caller starts a run with: 1..MaxInitMessages
MaxInitMessages == 2
\* number of distinct query texts the generator can return
NumQueries == 2
\* longest error list the validator reports
MaxErrors == 2

\* ------------------------------------------------------------------ state
VARIABLES
  pc,                \* the node that runs next, END or Thrown
  messages, schema, currentQuery, validationErrors, executionResult,
  retryCount, schemaContext,     \* the channels of the state annotation
  schemaData,        \* SchemaLookupTool.schemaData
  initialMessages,   \* history: the messages the run was started with
  initialRetryCount, \* history: the retryCount the run was started with
  validationRecoveries,  \* history: handle_validation_error passes
  executionRecoveries,   \* history: handle_execution_error passes
  generatorCalls,    \* history: calls of generateQuery
  validatorReports,  \* history: "clean" or "errors", one per validation
  executorFailed,    \* history: some executor call failed
  indexFailed,       \* history: some schema lookup failed
  lastUpdate,        \* history: the partial state the last node returned
  lookupLog,         \* history: the calls of the schema lookup tool, in order
  generatedQuery,    \* history: the query the generator returned last
  clientPc,          \* request: "start", "reading", "returned" or "threw"
  clientQuery,       \* request: the query and whether variables were given
  clientResponse,    \* request: the response fetch resolved with
  clientResult,      \* request: the data returned or the error thrown
  runs,              \* several runs of one graph: the state of each run
  outcomes,          \* several runs: the capability outcomes of each run
  chainPc,           \* chain: the step that runs next, "done" or Thrown
  chainState,        \* chain: the ChainState passed from step to step
  chainLog,          \* chain history: the steps that ran, in order
  executorCalls,     \* chain history: calls of executor.call
  afterValidator     \* chain history: the state the validator step returned

\* ------------------------------------------------------- JavaScript values
\* undefined, for string-valued channels and results
Undefined == "undefined"
\* undefined, for the number-valued channel retryCount
UndefinedNumber == 0 - 1

\* JavaScript truthiness of a string-valued channel (the empty string and
\* undefined are falsy)
Falsy(v) == v = Undefined \/ v = ""

\* y ?? d on numbers
Nullish(y, d) == IF y = UndefinedNumber THEN d ELSE y

\* a < b on numbers, where undefined < b is false
LessThan(a, b) == a # UndefinedNumber /\ a < b

Last(s) == s[Len(s)]

\* ------------------------------------------------------------ node names
START_NODE == "generate_schema_context"
END == "__end__"
\* the run was rejected: a node function threw
Thrown == "thrown"

Nodes ==
  {"generate_schema_context", "generate_query", "validate_query",
   "execute_query", "handle_validation_error", "handle_execution_error"}

\* ------------------------------------------------------------- reducers
\* messagesReducer replacing the list instead of appending to it
messagesReducerReplace(x, y) == y

messagesReducer(x, y) == x \o y
schemaReducer(x, y) == IF Falsy(y) THEN x ELSE y
currentQueryReducer(x, y) == IF Falsy(y) THEN x ELSE y
\* y is an array here, and every array is truthy
validationErrorsReducer(x, y) == y
executionResultReducer(x, y) == IF Falsy(y) THEN x ELSE y
retryCountReducer(x, y) == Nullish(y, 0) + Nullish(x, 0)
\* y is an object here, and every object is truthy
schemaContextReducer(x, y) == y

\* ------------------------------------------------- schema context index
\* a lookup request; the fields a variant does not have are left empty
TypeLookup(id) == [lookup |-> "type", id |-> id, query |-> "", limit |-> 0]
Search(q, n) == [lookup |-> "search", id |-> "", query |-> q, limit |-> n]

\* the context the channel holds before the first successful lookup
NoContext ==
  [defined |-> FALSE, types |-> {}, fields |-> {}, relatedTypes |-> {}]

\* the type names of the schema that a search text matches
SearchHits(q) ==
  IF q = "validation_retry" THEN {"Query", "Country"}
  ELSE IF q = "execution_retry" THEN {"Country"}
  ELSE {"Country", "Continent"}

RECURSIVE TakeSome(_, _)
TakeSome(S, n) ==
  IF n = 0 \/ S = {} THEN {}
  ELSE LET x == CHOOSE e \in S : TRUE IN {x} \cup TakeSome(S \ {x}, n - 1)

LookupTypes(r) ==
  IF r.lookup = "type" THEN {r.id} ELSE TakeSome(SearchHits(r.query), r.limit)

schemaListLookup(data, requests) ==
  LET touched == UNION {LookupTypes(requests[i]) : i \in 1..Len(requests)}
  IN [defined |-> TRUE,
      types |-> touched,
      fields |-> {<<t, "name">> : t \in touched},
      relatedTypes |-> touched]

\* JSON.parse(JSON.stringify(result)): a Set serialises as the empty object
JSONRoundTrip(r) == [r EXCEPT !.relatedTypes = {}]

\* SchemaLookupCall that checks the root marker only after the lookup
SchemaLookupCallLate(data, requests) ==
  IF ~data.hasRoot
    THEN [ok |-> FALSE, message |-> "Invalid schema: missing __schema property",
          text |-> NoContext, lookedUp |-> TRUE]
    ELSE [ok |-> TRUE, message |-> "",
          text |-> schemaListLookup(data, requests), lookedUp |-> TRUE]

\* SchemaLookupCall that leaves out the types the run's context already has
SchemaLookupCallOnlyNew(data, requests) ==
  IF ~data.hasRoot
    THEN [ok |-> FALSE, message |-> "Invalid schema: missing __schema property",
          text |-> NoContext, lookedUp |-> FALSE]
    ELSE [ok |-> TRUE, message |-> "",
          text |-> [schemaListLookup(data, requests) EXCEPT
                      !.types = @ \ schemaContext.types],
          lookedUp |-> TRUE]

\* SchemaLookupTool._call: the outcome of one batch
\* lookedUp: schemaListLookup was called; text: the result before it is
\* serialised
SchemaLookupCall(data, requests) ==
  IF ~data.hasRoot
    THEN [ok |-> FALSE, message |-> "Invalid schema: missing __schema property",
          text |-> NoContext, lookedUp |-> FALSE]
    ELSE [ok |-> TRUE, message |-> "",
          text |-> schemaListLookup(data, requests), lookedUp |-> TRUE]

\* ------------------------------------------------------- partial states
NoUpdate ==
  [has |-> {}, messages |-> <<>>, currentQuery |-> Undefined,
   validationErrors |-> <<>>, executionResult |-> Undefined,
   retryCount |-> 0, schemaContext |-> NoContext,
   calls |-> <<>>]    \* the lookup batches the node issued, not a channel

\* ----------------------------------------------------------------- nodes
\* generateSchemaContextNode that also clears the context when the lookup fails
generateSchemaContextNodeClears(msgs, data) ==
  LET userMessage == Last(msgs)
      schemaRequests == <<TypeLookup("Query"), Search(userMessage, 5)>>
      res == SchemaLookupCall(data, schemaRequests)
  IN IF res.ok
       THEN [NoUpdate EXCEPT !.has = {"schemaContext"},
                             !.schemaContext = JSONRoundTrip(res.text),
                             !.calls = <<schemaRequests>>]
       ELSE [NoUpdate EXCEPT !.has = {"validationErrors", "schemaContext"},
                             !.validationErrors = <<res.message>>,
                             !.schemaContext = [NoContext EXCEPT !.defined = TRUE],
                             !.calls = <<schemaRequests>>]

\* generateSchemaContextNode that searches for the first message of the run
generateSchemaContextNodeFirstMessage(msgs, data) ==
  LET userMessage == msgs[1]
      schemaRequests == <<TypeLookup("Query"), Search(userMessage, 5)>>
      res == SchemaLookupCall(data, schemaRequests)
  IN IF res.ok
       THEN [NoUpdate EXCEPT !.has = {"schemaContext"},
                             !.schemaContext = JSONRoundTrip(res.text),
                             !.calls = <<schemaRequests>>]
       ELSE [NoUpdate EXCEPT !.has = {"validationErrors"},
                             !.validationErrors = <<res.message>>,
                             !.calls = <<schemaRequests>>]

generateSchemaContextNode(msgs, data) ==
  LET userMessage == Last(msgs)
      schemaRequests == <<TypeLookup("Query"), Search(userMessage, 5)>>
      res == SchemaLookupCall(data, schemaRequests)
  IN IF res.ok
       THEN [NoUpdate EXCEPT !.has = {"schemaContext"},
                             !.schemaContext = JSONRoundTrip(res.text),
                             !.calls = <<schemaRequests>>]
       ELSE [NoUpdate EXCEPT !.has = {"validationErrors"},
                             !.validationErrors = <<res.message>>,
                             !.calls = <<schemaRequests>>]

\* result.errors || []
OrEmpty(hasErrors, errors) == IF hasErrors THEN errors ELSE <<>>

\* generateQueryNode that also clears the schema context
generateQueryNodeResetsContext(result) ==
  [NoUpdate EXCEPT !.has = {"currentQuery", "validationErrors", "schemaContext"},
                   !.currentQuery = result.query,
                   !.validationErrors = OrEmpty(result.hasErrors, result.errors),
                   !.schemaContext = NoContext]

generateQueryNode(result) ==
  [NoUpdate EXCEPT !.has = {"currentQuery", "validationErrors"},
                   !.currentQuery = result.query,
                   !.validationErrors = OrEmpty(result.hasErrors, result.errors)]

validateQueryNode(validationResult) ==
  [NoUpdate EXCEPT !.has = {"validationErrors"},
                   !.validationErrors =
                      OrEmpty(validationResult.hasErrors, validationResult.errors)]

\* executeQueryNode that keeps a result next to the error of a failed call
executeQueryNodeResultAndError(outcome) ==
  IF outcome.kind = "ok"
    THEN [NoUpdate EXCEPT !.has = {"executionResult"},
                          !.executionResult = outcome.value]
    ELSE [NoUpdate EXCEPT !.has = {"validationErrors", "executionResult"},
                          !.validationErrors = <<outcome.message>>,
                          !.executionResult = "partial"]

\* executeQueryNode that adds the error of a failed call to the errors it found
executeQueryNodeAddsError(outcome) ==
  IF outcome.kind = "ok"
    THEN [NoUpdate EXCEPT !.has = {"executionResult"},
                          !.executionResult = outcome.value]
    ELSE [NoUpdate EXCEPT !.has = {"validationErrors"},
                          !.validationErrors =
                             <<"query failed", outcome.message>>]

\* outcome.kind: "ok" (the executor returned parsable text), "unparsable"
\* (JSON.parse threw) or "throw" (the executor threw)
executeQueryNode(outcome) ==
  IF outcome.kind = "ok"
    THEN [NoUpdate EXCEPT !.has = {"executionResult"},
                          !.executionResult = outcome.value]
    ELSE [NoUpdate EXCEPT !.has = {"validationErrors"},
                          !.validationErrors = <<outcome.message>>]

handleValidationErrorNode(msgs) ==
  [NoUpdate EXCEPT !.has = {"messages", "retryCount"},
                   !.messages = msgs \o <<"validation_retry">>,
                   !.retryCount = 1]

\* handleExecutionErrorNode counting a pass twice
handleExecutionErrorNodeCountsTwo(msgs) ==
  [NoUpdate EXCEPT !.has = {"messages", "retryCount"},
                   !.messages = msgs \o <<"execution_retry">>,
                   !.retryCount = 2]

handleExecutionErrorNode(msgs) ==
  [NoUpdate EXCEPT !.has = {"messages", "retryCount"},
                   !.messages = msgs \o <<"execution_retry">>,
                   !.retryCount = 1]

\* ----------------------------------------------------- conditional edges
\* validateRouter with the comparison off by one
validateRouterOffByOne(errs, count) ==
  IF Len(errs) > 0
    THEN IF count # UndefinedNumber /\ count <= MAX_RETRIES
           THEN "handle_validation_error" ELSE END
    ELSE "execute_query"

\* validateRouter that gives up after the first retry
validateRouterRetryOnce(errs, count) ==
  IF Len(errs) > 0
    THEN IF LessThan(count, 1) THEN "handle_validation_error" ELSE END
    ELSE "execute_query"

\* validateRouter that executes the query whatever the validator reported
validateRouterAlwaysExecute(errs, count) == "execute_query"

validateRouter(errs, count) ==
  IF Len(errs) > 0
    THEN IF LessThan(count, MAX_RETRIES) THEN "handle_validation_error" ELSE END
    ELSE "execute_query"

\* executeRouter with the comparison off by one
executeRouterOffByOne(errs, count) ==
  IF Len(errs) > 0
    THEN IF count # UndefinedNumber /\ count <= MAX_RETRIES
           THEN "handle_execution_error" ELSE END
    ELSE END

\* executeRouter that never retries
executeRouterNoRetry(errs, count) == END

\* executeRouter that retries after every execution
executeRouterAlwaysRetry(errs, count) ==
  IF LessThan(count, MAX_RETRIES) THEN "handle_execution_error" ELSE END

executeRouter(errs, count) ==
  IF Len(errs) > 0
    THEN IF LessThan(count, MAX_RETRIES) THEN "handle_execution_error" ELSE END
    ELSE END

\* NextNode with the execution retry wired straight back to generation
NextNodeSkipContext(node, errs, count) ==
  CASE node = "generate_schema_context" -> "generate_query"
    [] node = "generate_query" -> "validate_query"
    [] node = "validate_query" -> validateRouter(errs, count)
    [] node = "execute_query" -> executeRouter(errs, count)
    [] node = "handle_validation_error" -> "generate_schema_context"
    [] node = "handle_execution_error" -> "generate_query"

\* addEdge / addConditionalEdges: the node that follows `node`, given the
\* merged state the conditional edges read
NextNode(node, errs, count) ==
  CASE node = "generate_schema_context" -> "generate_query"
    [] node = "generate_query" -> "validate_query"
    [] node = "validate_query" -> validateRouter(errs, count)
    [] node = "execute_query" -> executeRouter(errs, count)
    [] node = "handle_validation_error" -> "generate_schema_context"
    [] node = "handle_execution_error" -> "generate_schema_context"

\* ------------------------------------------------- capability results
QueryNames == <<"query1", "query2", "query3", "query4">>
Queries == {QueryNames[i] : i \in 1..NumQueries}

ErrorNames == <<"error1", "error2", "error3", "error4">>
ErrorList(n) == [i \in 1..n |-> ErrorNames[i]]

\* generateQuery: {query, errors?}; the query may be the empty string
GeneratorResults ==
  {[query |-> q, hasErrors |-> FALSE, errors |-> <<>>] : q \in Queries \cup {""}}
  \cup {[query |-> q, hasErrors |-> TRUE, errors |-> e] :
          q \in Queries \cup {""}, e \in {<<>>, <<"generation failed">>}}

\* validationParser.parse: {errors?}
ValidatorResults ==
  {[hasErrors |-> FALSE, errors |-> <<>>]}
  \cup {[hasErrors |-> TRUE, errors |-> ErrorList(n)] : n \in 0..MaxErrors}

\* executor.call followed by JSON.parse
ExecutorOutcomes ==
  {[kind |-> "ok", value |-> "response", message |-> ""],
   [kind |-> "throw", value |-> Undefined, message |-> "HTTP error"],
   [kind |-> "unparsable", value |-> Undefined, message |-> "Unexpected token"]}

\* the compressed schema the graph is created with
SchemaBlobs == {[hasRoot |-> TRUE], [hasRoot |-> FALSE]}

InitialMessages(n) == [i \in 1..n |-> "intent"]

\* ------------------------------------------------------ GraphQL client
\* HTTP statuses the endpoint answers with
Statuses == {200, 204, 404, 500}

\* Response.ok
ResponseOk(status) == status >= 200 /\ status <= 299

\* data.errors of a parsed body: absent, null, or a list of errors
NoErrors == [kind |-> "absent", list |-> <<>>]
ErrorsValues ==
  {NoErrors, [kind |-> "null", list |-> <<>>]}
  \cup {[kind |-> "list", list |-> ErrorList(n)] : n \in 0..MaxErrors}

\* the truthiness of data.errors: an array is truthy even when empty
TruthyErrors(e) == e.kind = "list"

\* response bodies: no JSON text, the JSON text null, or a JSON object
NoBody == [kind |-> "invalid", hasData |-> FALSE, errors |-> NoErrors]
Bodies ==
  {NoBody, [kind |-> "null", hasData |-> FALSE, errors |-> NoErrors]}
  \cup {[kind |-> "object", hasData |-> d, errors |-> e] :
          d \in BOOLEAN, e \in ErrorsValues}

Responses == {[status |-> s, body |-> b] : s \in Statuses, b \in Bodies}
NoResponse == [status |-> 0, body |-> NoBody]

NoResult == [kind |-> "none", error |-> "", data |-> NoBody]
ThrownError(message) == [kind |-> "threw", error |-> message, data |-> NoBody]

\* request after fetch resolved: the response.ok test
afterFetch(response) ==
  IF ~ResponseOk(response.status)
    THEN ThrownError("HTTP error! status")
    ELSE NoResult

\* afterJson that returns whatever was parsed
afterJsonNoCheck(data) ==
  IF data.kind = "null"
    THEN ThrownError("TypeError")
    ELSE [kind |-> "returned", error |-> "", data |-> data]

\* request after response.json() resolved: the data.errors test and return
afterJson(data) ==
  IF data.kind = "null"
    THEN ThrownError("TypeError")
    ELSE IF TruthyErrors(data.errors)
           THEN ThrownError("GraphQL errors")
           ELSE [kind |-> "returned", error |-> "", data |-> data]

clientVars == <<clientPc, clientQuery, clientResponse, clientResult>>

\* no request is in progress
ClientIdle ==
  /\ clientPc = "idle"
  /\ clientQuery = [query |-> Undefined, variables |-> FALSE]
  /\ clientResponse = NoResponse
  /\ clientResult = NoResult

\* ------------------------------------------- several runs of one graph
RunIds == {1, 2}

\* the intent each run is started with
RunIntents == <<"intent1", "intent2">>

\* the state a run is started with
RunStart(i) ==
  [pc |-> START_NODE, messages |-> <<RunIntents[i]>>, schema |-> "schema",
   currentQuery |-> Undefined, validationErrors |-> <<>>,
   executionResult |-> Undefined, retryCount |-> 0,
   schemaContext |-> NoContext]

\* a node that calls no capability of its own
NoOutcome == [kind |-> "none"]

\* the outcomes the capability called by `node` can have
RunOutcomes(node) ==
  CASE node = "generate_query" ->
         {r \in GeneratorResults : ~r.hasErrors /\ r.query = "query1"}
    [] node = "validate_query" ->
         {r \in ValidatorResults : r.hasErrors = (Len(r.errors) = 1)}
    [] node = "execute_query" ->
         {o \in ExecutorOutcomes : o.kind \in {"ok", "throw"}}
    [] OTHER -> {NoOutcome}

\* the partial state the node r.pc returns for run state r
NodeUpdate(r, o, data) ==
  CASE r.pc = "generate_schema_context" ->
         generateSchemaContextNode(r.messages, data)
    [] r.pc = "generate_query" -> generateQueryNode(o)
    [] r.pc = "validate_query" -> validateQueryNode(o)
    [] r.pc = "execute_query" -> executeQueryNode(o)
    [] r.pc = "handle_validation_error" -> handleValidationErrorNode(r.messages)
    [] r.pc = "handle_execution_error" -> handleExecutionErrorNode(r.messages)

\* the reducers applied to run state r and the partial state u
MergeRun(r, u) ==
  [r EXCEPT
     !.messages = IF "messages" \in u.has
                    THEN messagesReducer(@, u.messages) ELSE @,
     !.currentQuery = IF "currentQuery" \in u.has
                        THEN currentQueryReducer(@, u.currentQuery) ELSE @,
     !.validationErrors = IF "validationErrors" \in u.has
                            THEN validationErrorsReducer(@, u.validationErrors)
                            ELSE @,
     !.executionResult = IF "executionResult" \in u.has
                           THEN executionResultReducer(@, u.executionResult)
                           ELSE @,
     !.retryCount = IF "retryCount" \in u.has
                      THEN retryCountReducer(@, u.retryCount) ELSE @,
     !.schemaContext = IF "schemaContext" \in u.has
                         THEN schemaContextReducer(@, u.schemaContext) ELSE @]

\* one node run of a run in state r: node, merge, edge
NodeStep(r, o, data) ==
  LET m == MergeRun(r, NodeUpdate(r, o, data))
  IN [m EXCEPT !.pc = NextNode(r.pc, m.validationErrors, m.retryCount)]

\* the run executed alone from state r with the capability outcomes outs
RECURSIVE RunAlone(_, _, _)
RunAlone(r, outs, data) ==
  IF outs = <<>> THEN r
  ELSE RunAlone(NodeStep(r, Head(outs), data), Tail(outs), data)

\* StepRun with one retry counter for all runs
StepRunSharedRetryCount(rs, i, o, data) ==
  LET n == NodeStep(rs[i], o, data)
  IN [j \in DOMAIN rs |->
        IF j = i THEN n ELSE [rs[j] EXCEPT !.retryCount = n.retryCount]]

\* the runtime runs the next node of run i on that run's own state
StepRun(rs, i, o, data) ==
  [rs EXCEPT ![i] = NodeStep(rs[i], o, data)]

runVars == <<runs, outcomes>>

\* no several-run session is in progress
RunsIdle ==
  /\ runs = [i \in RunIds |-> [RunStart(i) EXCEPT !.pc = END]]
  /\ outcomes = [i \in RunIds |-> <<>>]

\* ------------------------------------------------- linear query chain
\* a string[] field of ChainState, which a step may set to undefined
NoList == [defined |-> FALSE, list |-> <<>>]
SomeList(l) == [defined |-> TRUE, list |-> l]

\* result.errors of the builder, validationResult.errors of the validator
ErrorsOf(result) == IF result.hasErrors THEN SomeList(result.errors) ELSE NoList

\* the ChainState the caller passes in
ChainInputs ==
  {[messages |-> InitialMessages(n), schema |-> "schema", currentQuery |-> "",
    validationErrors |-> SomeList(<<>>), executionResult |-> r] :
     n \in 1..MaxInitMessages, r \in {Undefined, "earlier response"}}

\* what executor.call resolves with: the response text
ExecutorTexts == {"response", "no json"}

\* the query builder step
builderStep(state, result) ==
  [state EXCEPT !.currentQuery = result.query,
                !.validationErrors = ErrorsOf(result)]

\* the validator step
validatorStep(state, validationResult) ==
  [state EXCEPT !.validationErrors = ErrorsOf(validationResult)]

\* executorSkips that lets every query through
executorSkipsNever(state) == FALSE

\* the executor step's test state.validationErrors?.length > 0
executorSkips(state) ==
  state.validationErrors.defined /\ Len(state.validationErrors.list) > 0

\* the executor step after executor.call resolved with text
executorStep(state, text) == [state EXCEPT !.executionResult = text]

ChainSteps == <<"builder", "validator", "executor">>

chainVars == <<chainPc, chainState, chainLog, executorCalls, afterValidator>>

\* no chain is invoked
ChainIdle ==
  /\ chainPc = "idle"
  /\ chainState \in {s \in ChainInputs :
                       Len(s.messages) = 1 /\ s.executionResult = Undefined}
  /\ chainLog = <<>>
  /\ executorCalls = 0
  /\ afterValidator = chainState

channels ==
  <<messages, schema, currentQuery, validationErrors, executionResult,
    retryCount, schemaContext>>

history ==
  <<initialMessages, initialRetryCount, validationRecoveries,
    executionRecoveries, generatorCalls, validatorReports, executorFailed,
    indexFailed, lastUpdate, lookupLog, generatedQuery>>

vars == <<pc, channels, schemaData, history, clientVars, runVars, chainVars>>

GraphInit ==
  /\ pc = START_NODE
  /\ \E n \in 1..MaxInitMessages : messages = InitialMessages(n)
  /\ schema = "schema"
  /\ currentQuery = Undefined
  /\ validationErrors = <<>>
  /\ executionResult = Undefined
  /\ retryCount \in {0, UndefinedNumber}
  /\ schemaContext = NoContext
  /\ schemaData \in SchemaBlobs
  /\ initialMessages = messages
  /\ initialRetryCount = retryCount
  /\ validationRecoveries = 0
  /\ executionRecoveries = 0
  /\ generatorCalls = 0
  /\ validatorReports = <<>>
  /\ executorFailed = FALSE
  /\ indexFailed = FALSE
  /\ lastUpdate = NoUpdate
  /\ lookupLog = <<>>
  /\ generatedQuery = Undefined

Init == GraphInit /\ ClientIdle /\ RunsIdle /\ ChainIdle

\* the reducers applied to the partial state u a node returned
Merge(u) ==
  /\ messages' = IF "messages" \in u.has
                   THEN messagesReducer(messages, u.messages) ELSE messages
  /\ schema' = schema
  /\ currentQuery' = IF "currentQuery" \in u.has
                       THEN currentQueryReducer(currentQuery, u.currentQuery)
                       ELSE currentQuery
  /\ validationErrors' = IF "validationErrors" \in u.has
                           THEN validationErrorsReducer(validationErrors,
                                                        u.validationErrors)
                           ELSE validationErrors
  /\ executionResult' = IF "executionResult" \in u.has
                          THEN executionResultReducer(executionResult,
                                                      u.executionResult)
                          ELSE executionResult
  /\ retryCount' = IF "retryCount" \in u.has
                     THEN retryCountReducer(retryCount, u.retryCount)
                     ELSE retryCount
  /\ schemaContext' = IF "schemaContext" \in u.has
                        THEN schemaContextReducer(schemaContext, u.schemaContext)
                        ELSE schemaContext
  /\ lastUpdate' = u
  /\ UNCHANGED <<clientVars, runVars, chainVars>>

\* one node run that returned u: merge, then follow the edge out of the node
Step(u) ==
  /\ Merge(u)
  /\ pc' = NextNode(pc, validationErrors', retryCount')

\* a node function threw: the run is rejected with the state as it was
Throw ==
  /\ pc' = Thrown
  /\ UNCHANGED <<channels, lastUpdate, clientVars, runVars, chainVars>>

GenerateSchemaContext ==
  /\ pc = "generate_schema_context"
  /\ LET u == generateSchemaContextNode(messages, schemaData)
     IN /\ Step(u)
        /\ indexFailed' = (indexFailed \/ "validationErrors" \in u.has)
        /\ lookupLog' = lookupLog \o
             [i \in 1..Len(u.calls) |->
                [schemaData |-> schemaData, requests |-> u.calls[i],
                 result |-> SchemaLookupCall(schemaData, u.calls[i])]]
  /\ UNCHANGED <<schemaData, initialMessages, initialRetryCount,
                 generatedQuery,
                 validationRecoveries, executionRecoveries, generatorCalls,
                 validatorReports, executorFailed>>

GenerateQuery ==
  /\ pc = "generate_query"
  /\ \E result \in GeneratorResults :
       /\ Step(generateQueryNode(result))
       /\ generatedQuery' = result.query
  /\ generatorCalls' = generatorCalls + 1
  /\ UNCHANGED <<schemaData, initialMessages, initialRetryCount, lookupLog,
                 validationRecoveries, executionRecoveries,
                 validatorReports, executorFailed, indexFailed>>

GenerateQueryThrows ==
  /\ pc = "generate_query"
  /\ Throw
  /\ generatorCalls' = generatorCalls + 1
  /\ UNCHANGED <<schemaData, initialMessages, initialRetryCount, lookupLog,
                 generatedQuery,
                 validationRecoveries, executionRecoveries,
                 validatorReports, executorFailed, indexFailed>>

ValidateQuery ==
  /\ pc = "validate_query"
  /\ \E validationResult \in ValidatorResults :
       LET u == validateQueryNode(validationResult)
       IN /\ Step(u)
          /\ validatorReports' =
               Append(validatorReports,
                      IF u.validationErrors = <<>> THEN "clean" ELSE "errors")
  /\ UNCHANGED <<schemaData, initialMessages, initialRetryCount, lookupLog,
                 generatedQuery,
                 validationRecoveries, executionRecoveries, generatorCalls,
                 executorFailed, indexFailed>>

ValidateQueryThrows ==
  /\ pc = "validate_query"
  /\ Throw
  /\ UNCHANGED <<schemaData, initialMessages, initialRetryCount, lookupLog,
                 generatedQuery,
                 validationRecoveries, executionRecoveries, generatorCalls,
                 validatorReports, executorFailed, indexFailed>>

ExecuteQuery ==
  /\ pc = "execute_query"
  /\ \E outcome \in ExecutorOutcomes :
       /\ Step(executeQueryNode(outcome))
       /\ executorFailed' = (executorFailed \/ outcome.kind # "ok")
  /\ UNCHANGED <<schemaData, initialMessages, initialRetryCount, lookupLog,
                 generatedQuery,
                 validationRecoveries, executionRecoveries, generatorCalls,
                 validatorReports, indexFailed>>

HandleValidationError ==
  /\ pc = "handle_validation_error"
  /\ Step(handleValidationErrorNode(messages))
  /\ validationRecoveries' = validationRecoveries + 1
  /\ UNCHANGED <<schemaData, initialMessages, initialRetryCount, lookupLog,
                 generatedQuery,
                 executionRecoveries, generatorCalls, validatorReports,
                 executorFailed, indexFailed>>

HandleValidationErrorThrows ==
  /\ pc = "handle_validation_error"
  /\ Throw
  /\ UNCHANGED <<schemaData, initialMessages, initialRetryCount, lookupLog,
                 generatedQuery,
                 validationRecoveries, executionRecoveries, generatorCalls,
                 validatorReports, executorFailed, indexFailed>>

HandleExecutionError ==
  /\ pc = "handle_execution_error"
  /\ Step(handleExecutionErrorNode(messages))
  /\ executionRecoveries' = executionRecoveries + 1
  /\ UNCHANGED <<schemaData, initialMessages, initialRetryCount, lookupLog,
                 generatedQuery,
                 validationRecoveries, generatorCalls, validatorReports,
                 executorFailed, indexFailed>>

HandleExecutionErrorThrows ==
  /\ pc = "handle_execution_error"
  /\ Throw
  /\ UNCHANGED <<schemaData, initialMessages, initialRetryCount, lookupLog,
                 generatedQuery,
                 validationRecoveries, executionRecoveries, generatorCalls,
                 validatorReports, executorFailed, indexFailed>>

Next ==
  \/ GenerateSchemaContext
  \/ GenerateQuery
  \/ GenerateQueryThrows
  \/ ValidateQuery
  \/ ValidateQueryThrows
  \/ ExecuteQuery
  \/ HandleValidationError
  \/ HandleValidationErrorThrows
  \/ HandleExecutionError
  \/ HandleExecutionErrorThrows

Spec == Init /\ [][Next]_vars

\* every node run that is due is eventually carried out: the graph runtime
\* runs one node after the other until it reaches END or a node throws
FairSpec == Spec /\ WF_vars(Next)

\* ----------------------------------------------- GraphQL client: request
graphVars == <<pc, channels, schemaData, history>>

\* the graph with one run ready to start, which takes no step
GraphIdle ==
  /\ GraphInit
  /\ Len(messages) = 1
  /\ retryCount = 0
  /\ schemaData.hasRoot

ClientInit ==
  /\ GraphIdle
  /\ RunsIdle
  /\ ChainIdle
  /\ clientPc = "start"
  /\ \E q \in Queries, v \in BOOLEAN :
       clientQuery = [query |-> q, variables |-> v]
  /\ clientResponse = NoResponse
  /\ clientResult = NoResult

ClientDone(result) ==
  /\ clientResult' = result
  /\ clientPc' = result.kind

\* await fetch(...) rejects: the catch logs the error and rethrows it
FetchRejects ==
  /\ clientPc = "start"
  /\ ClientDone(ThrownError("fetch failed"))
  /\ UNCHANGED <<clientQuery, clientResponse, graphVars, runVars, chainVars>>

\* await fetch(...) resolves; a response that is not ok makes request throw
FetchResolves ==
  /\ clientPc = "start"
  /\ \E response \in Responses :
       /\ clientResponse' = response
       /\ IF afterFetch(response).kind = "threw"
            THEN ClientDone(afterFetch(response))
            ELSE clientPc' = "reading" /\ clientResult' = clientResult
  /\ UNCHANGED <<clientQuery, graphVars, runVars, chainVars>>

\* await response.json() rejects: the body is no JSON text
JsonRejects ==
  /\ clientPc = "reading"
  /\ clientResponse.body.kind = "invalid"
  /\ ClientDone(ThrownError("SyntaxError"))
  /\ UNCHANGED <<clientQuery, clientResponse, graphVars, runVars, chainVars>>

\* await response.json() resolves with the parsed body
JsonResolves ==
  /\ clientPc = "reading"
  /\ clientResponse.body.kind # "invalid"
  /\ ClientDone(afterJson(clientResponse.body))
  /\ UNCHANGED <<clientQuery, clientResponse, graphVars, runVars, chainVars>>

ClientNext ==
  \/ FetchRejects
  \/ FetchResolves
  \/ JsonRejects
  \/ JsonResolves

ClientSpec == ClientInit /\ [][ClientNext]_vars

\* ------------------------------------- several runs, steps interleaved
RunsInit ==
  /\ GraphInit
  /\ Len(messages) = 1
  /\ retryCount = 0
  /\ ClientIdle
  /\ ChainIdle
  /\ runs = [i \in RunIds |-> RunStart(i)]
  /\ outcomes = [i \in RunIds |-> <<>>]

\* run i runs the node `node`, which is the node it is at
RunNode(i, node) ==
  /\ runs[i].pc = node
  /\ \E o \in RunOutcomes(node) :
       /\ runs' = StepRun(runs, i, o, schemaData)
       /\ outcomes' = [outcomes EXCEPT ![i] = Append(@, o)]
  /\ UNCHANGED <<graphVars, clientVars, chainVars>>

RunGenerateSchemaContext(i) == RunNode(i, "generate_schema_context")
RunGenerateQuery(i) == RunNode(i, "generate_query")
RunValidateQuery(i) == RunNode(i, "validate_query")
RunExecuteQuery(i) == RunNode(i, "execute_query")
RunHandleValidationError(i) == RunNode(i, "handle_validation_error")
RunHandleExecutionError(i) == RunNode(i, "handle_execution_error")

RunsNext ==
  \E i \in RunIds :
    \/ RunGenerateSchemaContext(i)
    \/ RunGenerateQuery(i)
    \/ RunValidateQuery(i)
    \/ RunExecuteQuery(i)
    \/ RunHandleValidationError(i)
    \/ RunHandleExecutionError(i)

RunsSpec == RunsInit /\ [][RunsNext]_vars

\* ------------------------------------------- linear query chain: invoke
ChainInit ==
  /\ GraphIdle
  /\ ClientIdle
  /\ RunsIdle
  /\ chainPc = "builder"
  /\ chainState \in ChainInputs
  /\ chainLog = <<>>
  /\ executorCalls = 0
  /\ afterValidator = chainState

\* a step of the sequence returned: the next step runs on what it returned
ChainReturn(step, next, state) ==
  /\ chainState' = state
  /\ chainLog' = Append(chainLog, step)
  /\ chainPc' = next

\* a step of the sequence threw: the invocation is rejected
ChainThrow(step) ==
  /\ chainLog' = Append(chainLog, step)
  /\ chainPc' = Thrown
  /\ UNCHANGED chainState

BuilderStep ==
  /\ chainPc = "builder"
  /\ \E result \in GeneratorResults :
       ChainReturn("builder", "validator", builderStep(chainState, result))
  /\ afterValidator' = chainState'
  /\ UNCHANGED <<executorCalls, graphVars, clientVars, runVars>>

BuilderStepThrows ==
  /\ chainPc = "builder"
  /\ ChainThrow("builder")
  /\ UNCHANGED <<executorCalls, afterValidator, graphVars, clientVars, runVars>>

ValidatorStep ==
  /\ chainPc = "validator"
  /\ \E validationResult \in ValidatorResults :
       ChainReturn("validator", "executor",
                   validatorStep(chainState, validationResult))
  /\ afterValidator' = chainState'
  /\ UNCHANGED <<executorCalls, graphVars, clientVars, runVars>>

ValidatorStepThrows ==
  /\ chainPc = "validator"
  /\ ChainThrow("validator")
  /\ UNCHANGED <<executorCalls, afterValidator, graphVars, clientVars, runVars>>

\* the executor step returns: the state as it is, or with the response
ExecutorStep ==
  /\ chainPc = "executor"
  /\ IF executorSkips(chainState)
       THEN /\ ChainReturn("executor", "done", chainState)
            /\ UNCHANGED executorCalls
       ELSE /\ \E text \in ExecutorTexts :
                 ChainReturn("executor", "done", executorStep(chainState, text))
            /\ executorCalls' = executorCalls + 1
  /\ UNCHANGED <<afterValidator, graphVars, clientVars, runVars>>

\* executor.call rejects
ExecutorStepThrows ==
  /\ chainPc = "executor"
  /\ ~executorSkips(chainState)
  /\ ChainThrow("executor")
  /\ executorCalls' = executorCalls + 1
  /\ UNCHANGED <<afterValidator, graphVars, clientVars, runVars>>

ChainNext ==
  \/ BuilderStep
  \/ BuilderStepThrows
  \/ ValidatorStep
  \/ ValidatorStepThrows
  \/ ExecutorStep
  \/ ExecutorStepThrows

ChainSpec == ChainInit /\ [][ChainNext]_vars

\* ---------------------------------------------------------------- claims
RecoveryNodes == {"handle_validation_error", "handle_execution_error"}
Recoveries == validationRecoveries + executionRecoveries

\* C1: in a run started with retryCount 0, retryCount is a number that never
\* exceeds MAX_RETRIES, in every state of the run and so at END.
C1_RetryCountBounded ==
  initialRetryCount = 0 =>
    (retryCount # UndefinedNumber /\ retryCount >= 0 /\ retryCount <= MAX_RETRIES)

C1_Witness ==
  /\ initialRetryCount = 0
  /\ pc = END
  /\ retryCount = MAX_RETRIES
  /\ validationRecoveries > 0
  /\ executionRecoveries > 0

\* C2: a run in which every capability call returns reaches END; no run
\* takes more than MAX_RETRIES recovery passes, validation and execution
\* recoveries counted together, nor calls the generator more than
\* MAX_RETRIES + 1 times.
C2_Terminates ==
  /\ [](Recoveries <= MAX_RETRIES /\ generatorCalls <= MAX_RETRIES + 1)
  /\ <>(pc = END \/ pc = Thrown)

C2_Witness ==
  /\ pc = END
  /\ Recoveries = MAX_RETRIES
  /\ generatorCalls = MAX_RETRIES + 1
  /\ validationRecoveries > 0
  /\ executionRecoveries > 0

\* C3: no node lets an exception escape: whatever the capability a node
\* calls does, throwing included, the run is never rejected with an error.
C3_NoExceptionEscapes == pc # Thrown

\* C4: at END the state holds an execution result, or it holds errors and
\* either retryCount = MAX_RETRIES or a schema lookup failed in the run.
C4_FinalState ==
  pc = END =>
    \/ executionResult # Undefined
    \/ /\ validationErrors # <<>>
       /\ (retryCount = MAX_RETRIES \/ indexFailed)

\* C5: the node after validate_query is execute_query when validationErrors
\* is empty, handle_validation_error when it is not and retryCount <
\* MAX_RETRIES, END otherwise; execute_query is entered only with empty
\* validationErrors.
C5_ValidateRouting ==
  [][/\ (pc = "validate_query" /\ pc' # Thrown) =>
          pc' = IF validationErrors' = <<>> THEN "execute_query"
                ELSE IF retryCount' # UndefinedNumber /\ retryCount' < MAX_RETRIES
                  THEN "handle_validation_error"
                  ELSE END
     /\ (pc # "execute_query" /\ pc' = "execute_query") =>
          (pc = "validate_query" /\ validationErrors' = <<>>)]_vars

C5_Witness ==
  /\ pc = END
  /\ validationRecoveries = MAX_RETRIES
  /\ Len(validatorReports) = MAX_RETRIES + 1
  /\ validationErrors # <<>>
  /\ ~executorFailed

\* C6: the node after execute_query is END when validationErrors is empty
\* (and then executionResult is set), handle_execution_error when it is not
\* and retryCount < MAX_RETRIES, END when it is not and retryCount >=
\* MAX_RETRIES.
C6_ExecuteRouting ==
  [][pc = "execute_query" =>
       /\ pc' = IF validationErrors' = <<>> THEN END
                ELSE IF retryCount' # UndefinedNumber /\ retryCount' < MAX_RETRIES
                  THEN "handle_execution_error"
                  ELSE END
       /\ validationErrors' = <<>> => executionResult' # Undefined]_vars

C6_Witness ==
  /\ pc = END
  /\ executionRecoveries = MAX_RETRIES
  /\ lastUpdate.has = {"validationErrors"}
  /\ validationErrors = <<"HTTP error">>

\* the edges of the graph
GraphEdges ==
  {<<"generate_schema_context", "generate_query">>,
   <<"generate_query", "validate_query">>,
   <<"validate_query", "execute_query">>,
   <<"validate_query", "handle_validation_error">>,
   <<"validate_query", END>>,
   <<"execute_query", END>>,
   <<"execute_query", "handle_execution_error">>,
   <<"handle_validation_error", "generate_schema_context">>,
   <<"handle_execution_error", "generate_schema_context">>}

\* C7: the nodes a run executes form a path of the graph: it starts at
\* generate_schema_context, every node that returns is followed by a node
\* the graph joins it to, and nothing follows END.
C7_NodePath ==
  /\ pc = START_NODE
  /\ [][/\ (pc' # pc /\ pc' # Thrown) => <<pc, pc'>> \in GraphEdges
        /\ pc = END => pc' = END]_vars

C7_Witness ==
  /\ pc = END
  /\ validationRecoveries > 0
  /\ executionRecoveries > 0
  /\ executionResult # Undefined

\* C8: retryCount (an absent count read as 0, as the reducer reads it) never
\* decreases, changes by 0 or 1 in a node run, is changed by the two recovery
\* nodes only and by exactly 1 in each of their passes, and at END equals the
\* number of recovery passes of the run.
C8_RetryCountCounts ==
  /\ [][LET before == Nullish(retryCount, 0)
            after == Nullish(retryCount', 0)
        IN /\ after - before \in {0, 1}
           /\ after # before => pc \in RecoveryNodes
           /\ (pc \in RecoveryNodes /\ pc' # Thrown) => after = before + 1]_vars
  /\ [](pc = END => Nullish(retryCount, 0) = Recoveries)

C8_Witness ==
  /\ pc = END
  /\ retryCount = 2
  /\ validationRecoveries = 1
  /\ executionRecoveries = 1

\* C9: at END the length of messages is the length the run started with
\* plus the number of recovery passes.
C9_MessagesLength ==
  pc = END => Len(messages) = Len(initialMessages) + Recoveries

\* the validator reports of a run whose validator finds errors on the first
\* k attempts and none on attempt k + 1
Scenario(k) == [i \in 1..(k + 1) |-> IF i <= k THEN "errors" ELSE "clean"]

IsPrefix(s, t) == Len(s) <= Len(t) /\ \A i \in 1..Len(s) : s[i] = t[i]

\* C10: for k in 0..MAX_RETRIES-1, a run whose generator and executor never
\* fail and whose validator reports errors on the first k attempts and none
\* on attempt k + 1 ends with k validation recoveries, no execution
\* recovery, an execution result, no validation errors and retryCount = k.
C10_Scenario ==
  \A k \in 0..(MAX_RETRIES - 1) :
    (pc = END /\ ~executorFailed /\ IsPrefix(validatorReports, Scenario(k))) =>
      /\ validatorReports = Scenario(k)
      /\ validationRecoveries = k
      /\ executionRecoveries = 0
      /\ executionResult # Undefined
      /\ validationErrors = <<>>
      /\ retryCount = k

\* C11: a run whose validator reports errors on every attempt takes exactly
\* MAX_RETRIES recovery passes, never runs execute_query, and ends with
\* retryCount = MAX_RETRIES, errors and no execution result.
C11_AlwaysErrors ==
  (/\ pc = END
   /\ validatorReports # <<>>
   /\ \A i \in 1..Len(validatorReports) : validatorReports[i] = "errors") =>
    /\ validationRecoveries = MAX_RETRIES
    /\ executionRecoveries = 0
    /\ Len(validatorReports) = MAX_RETRIES + 1
    /\ retryCount = MAX_RETRIES
    /\ validationErrors # <<>>
    /\ executionResult = Undefined
    /\ ~executorFailed

\* C12: when the schema lacks its root marker, a generate_schema_context
\* step returns validationErrors only, with exactly one entry, leaves
\* schemaContext as it was, and is followed by generate_query.
C12_IndexFailure ==
  [][(pc = "generate_schema_context" /\ ~schemaData.hasRoot) =>
       /\ lastUpdate'.has = {"validationErrors"}
       /\ Len(validationErrors') = 1
       /\ schemaContext' = schemaContext
       /\ pc' = "generate_query"]_vars

C12_Witness ==
  /\ pc = "generate_query"
  /\ ~schemaData.hasRoot
  /\ indexFailed
  /\ Recoveries > 0
  /\ validationErrors = <<"Invalid schema: missing __schema property">>

\* C13: executionResult is set only by an execute_query step, and that step
\* starts with the empty validationErrors the validation before it left.
C13_ResultOnlyAfterCleanValidation ==
  [][executionResult' # executionResult =>
       /\ pc = "execute_query"
       /\ validationErrors = <<>>
       /\ validatorReports # <<>>
       /\ Last(validatorReports) = "clean"]_vars

C13_Witness ==
  /\ pc = END
  /\ executionResult # Undefined
  /\ validationRecoveries > 0
  /\ executionRecoveries > 0

\* C20: messages is append-only: after every node run the old list is a
\* prefix of the new one, and a node that returns messages leaves the old
\* list followed by the returned one.
C20_MessagesAppendOnly ==
  [][/\ IsPrefix(messages, messages')
     /\ (pc \in RecoveryNodes /\ pc' # Thrown) =>
          messages' = messages \o lastUpdate'.messages]_vars

C20_Witness ==
  /\ pc = END
  /\ Recoveries = 2
  /\ Len(messages) > Len(initialMessages) + 2
  /\ IsPrefix(initialMessages, messages)

\* the batches of at most two requests over a few lookups and searches
SomeRequests ==
  {TypeLookup("Query"), TypeLookup("Country"), Search("intent", 5),
   Search("validation_retry", 1)}
RequestBatches ==
  {<<>>} \cup {<<r>> : r \in SomeRequests}
         \cup {<<r, s>> : r \in SomeRequests, s \in SomeRequests}

\* a lookup result that fails without a result and without a lookup
FailedFast(res) ==
  ~res.ok /\ res.message # "" /\ res.text = NoContext /\ ~res.lookedUp

\* C14: on a schema without the root marker every batch fails with an
\* error, returns no result, not a partial one either, and the lookup
\* itself is not performed: for the batches the run issued and for every
\* other batch.
C14_FailsFast ==
  /\ \A i \in 1..Len(lookupLog) :
       ~lookupLog[i].schemaData.hasRoot => FailedFast(lookupLog[i].result)
  /\ \A batch \in RequestBatches :
       FailedFast(SchemaLookupCall([hasRoot |-> FALSE], batch))

C14_Witness ==
  /\ ~schemaData.hasRoot
  /\ Len(lookupLog) = MAX_RETRIES + 1
  /\ pc = END

Replaced(field, old, new, returned) ==
  IF field \in lastUpdate'.has THEN new = returned ELSE new = old

\* C18: after every node step each replace-if-present field holds exactly
\* the value the step returned when it returned one, and its old value
\* when it returned none (schema is returned by no node).
C18_ReplaceIfPresent ==
  [][(pc' # pc /\ pc' # Thrown) =>
       /\ schema' = schema
       /\ Replaced("currentQuery", currentQuery, currentQuery',
                   lastUpdate'.currentQuery)
       /\ Replaced("validationErrors", validationErrors, validationErrors',
                   lastUpdate'.validationErrors)
       /\ Replaced("executionResult", executionResult, executionResult',
                   lastUpdate'.executionResult)
       /\ Replaced("schemaContext", schemaContext, schemaContext',
                   lastUpdate'.schemaContext)]_vars

\* C18 for the steps that return no falsy value
C18_TruthyReplaced ==
  [][(pc' # pc /\ pc' # Thrown /\ ~Falsy(lastUpdate'.currentQuery)) =>
       /\ schema' = schema
       /\ Replaced("currentQuery", currentQuery, currentQuery',
                   lastUpdate'.currentQuery)
       /\ Replaced("validationErrors", validationErrors, validationErrors',
                   lastUpdate'.validationErrors)
       /\ Replaced("executionResult", executionResult, executionResult',
                   lastUpdate'.executionResult)
       /\ Replaced("schemaContext", schemaContext, schemaContext',
                   lastUpdate'.schemaContext)]_vars

\* C19: the query the Validator and the Executor are given is the query
\* the Generator returned in the same cycle.
C19_QueryOfThisCycle ==
  pc \in {"validate_query", "execute_query"} => currentQuery = generatedQuery

\* C19 for the cycles whose Generator returned a non-empty query
C19_NonEmptyQueryOfThisCycle ==
  (pc \in {"validate_query", "execute_query"} /\ ~Falsy(generatedQuery)) =>
    currentQuery = generatedQuery

\* a parsed body that carries GraphQL errors
CarriesErrors(body) ==
  body.kind = "object" /\ body.errors.kind = "list" /\ Len(body.errors.list) > 0

ClientFinished == clientPc \in {"returned", "threw"}
ReceivedResponse == clientResponse # NoResponse

\* C17: request throws an Error when the response is not ok or its body
\* carries GraphQL errors, rethrows a transport failure, and returns only
\* the data of an ok response whose body carries no errors.
C17_RequestThrowsOrReturnsData ==
  /\ (ReceivedResponse /\ ~ResponseOk(clientResponse.status)) =>
       (clientPc = "threw" /\ clientResult.error = "HTTP error! status")
  /\ (ClientFinished /\ ReceivedResponse /\ ResponseOk(clientResponse.status)
        /\ CarriesErrors(clientResponse.body)) =>
       (clientPc = "threw" /\ clientResult.error = "GraphQL errors")
  /\ (ClientFinished /\ ~ReceivedResponse) =>
       (clientPc = "threw" /\ clientResult.error = "fetch failed")
  /\ (ClientFinished /\ ReceivedResponse /\ ResponseOk(clientResponse.status)
        /\ clientResponse.body.kind = "invalid") =>
       (clientPc = "threw" /\ clientResult.error = "SyntaxError")
  /\ clientPc = "returned" =>
       /\ ReceivedResponse
       /\ ResponseOk(clientResponse.status)
       /\ clientResponse.body.kind = "object"
       /\ ~CarriesErrors(clientResponse.body)
       /\ clientResult.kind = "returned"
       /\ clientResult.data = clientResponse.body
  /\ clientPc = "threw" => clientResult.kind = "threw"

C17_WitnessReturns ==
  /\ clientPc = "returned"
  /\ clientResult.data.hasData
  /\ clientResult.data.errors.kind = "null"

C17_Witness ==
  /\ clientPc = "threw"
  /\ ResponseOk(clientResponse.status)
  /\ clientResponse.body.hasData
  /\ CarriesErrors(clientResponse.body)

\* every run is in the state it reaches when run alone
EachRunAsAlone ==
  \A i \in RunIds : runs[i] = RunAlone(RunStart(i), outcomes[i], schemaData)

ChangedFields ==
  {f \in {"messages", "schema", "currentQuery", "validationErrors",
          "executionResult", "retryCount", "schemaContext"} :
     CASE f = "messages" -> messages' # messages
       [] f = "schema" -> schema' # schema
       [] f = "currentQuery" -> currentQuery' # currentQuery
       [] f = "validationErrors" -> validationErrors' # validationErrors
       [] f = "executionResult" -> executionResult' # executionResult
       [] f = "retryCount" -> retryCount' # retryCount
       [] f = "schemaContext" -> schemaContext' # schemaContext}

\* the sets of fields a step of `node` may return
ReturnedFields(node) ==
  CASE node = "generate_schema_context" ->
         IF schemaData.hasRoot THEN {{"schemaContext"}}
                               ELSE {{"validationErrors"}}
    [] node = "generate_query" -> {{"currentQuery", "validationErrors"}}
    [] node = "validate_query" -> {{"validationErrors"}}
    [] node = "execute_query" -> {{"executionResult"}, {"validationErrors"}}
    [] node \in {"handle_validation_error", "handle_execution_error"} ->
         {{"messages", "retryCount"}}

\* C21: every node step returns the fields of its node and changes no
\* channel but those it returned; schema never changes, and schemaContext
\* changes only by being replaced in a successful context step.
C21_Frame ==
  [][(pc' # pc /\ pc' # Thrown) =>
       /\ lastUpdate'.has \in ReturnedFields(pc)
       /\ ChangedFields \subseteq lastUpdate'.has
       /\ schema' = schema
       /\ schemaContext' # schemaContext =>
            /\ pc = "generate_schema_context"
            /\ schemaData.hasRoot
            /\ schemaContext' = lastUpdate'.schemaContext]_vars

C21_Witness ==
  /\ pc = END
  /\ validationRecoveries > 0
  /\ executionRecoveries > 0
  /\ executionResult # Undefined
  /\ schemaContext.defined

\* the messages a failed executor call leaves
FailedOutcomes == {o \in ExecutorOutcomes : o.kind # "ok"}

\* C22: for every failure of the executor (the call throws, or its text
\* does not parse) the execute step returns validationErrors with exactly
\* one entry, the error's message, and no executionResult, which stays
\* absent; for every success it returns the parsed result only, and
\* validationErrors stays empty.
C22_ExecuteOutcome ==
  /\ [](\A o \in ExecutorOutcomes :
          IF o.kind = "ok"
            THEN /\ executeQueryNode(o).has = {"executionResult"}
                 /\ executeQueryNode(o).executionResult = o.value
            ELSE /\ executeQueryNode(o).has = {"validationErrors"}
                 /\ executeQueryNode(o).validationErrors = <<o.message>>)
  /\ [][pc = "execute_query" =>
          IF "validationErrors" \in lastUpdate'.has
            THEN /\ Len(validationErrors') = 1
                 /\ validationErrors'[1] \in {o.message : o \in FailedOutcomes}
                 /\ executionResult' = executionResult
                 /\ executionResult' = Undefined
            ELSE /\ executionResult' = lastUpdate'.executionResult
                 /\ executionResult' # Undefined
                 /\ validationErrors' = <<>>]_vars

C22_Witness ==
  /\ pc = "handle_execution_error"
  /\ validationErrors = <<"Unexpected token">>
  /\ executionResult = Undefined
  /\ executionRecoveries = 1

\* C23: a validate_query step that starts with the errors the generator
\* reported in this cycle does not lead to execute_query: it leads to the
\* validation recovery node while retryCount < MAX_RETRIES and to END
\* otherwise, whatever the validator reports.
C23_GenerationFailureRetried ==
  [][(/\ pc = "validate_query"
      /\ Len(validationErrors) > 0
      /\ pc' # Thrown) =>
       pc' = IF LessThan(retryCount, MAX_RETRIES)
               THEN "handle_validation_error" ELSE END]_vars

\* what the code does with a generation failure: the validator's report
\* alone decides
C23_GenerationFailureOverwritten ==
  [][(/\ pc = "validate_query"
      /\ Len(validationErrors) > 0
      /\ pc' # Thrown) =>
       /\ validationErrors' = lastUpdate'.validationErrors
       /\ pc' = validateRouter(lastUpdate'.validationErrors, retryCount)]_vars

IndexError == "Invalid schema: missing __schema property"
Entries(s) == {s[i] : i \in 1..Len(s)}

\* C24: in a cycle whose index lookup failed, the error the context node
\* wrote is still in validationErrors when the validate_query router
\* decides, so the cycle does not go on to execute_query, and a run whose
\* index lookup failed ends with that error in validationErrors, never as a
\* success.
C24_IndexErrorSurfaced ==
  [][(/\ ~schemaData.hasRoot
      /\ indexFailed
      /\ pc = "validate_query"
      /\ pc' # Thrown) =>
       /\ IndexError \in Entries(validationErrors')
       /\ pc' # "execute_query"
       /\ pc' = END => executionResult' = Undefined]_vars

\* what the code does with the index error: the next node replaces it
C24_IndexErrorOverwritten ==
  [][(~schemaData.hasRoot /\ pc = "generate_query" /\ pc' # Thrown) =>
       /\ validationErrors = <<IndexError>>
       /\ validationErrors' = lastUpdate'.validationErrors
       /\ IndexError \notin Entries(validationErrors')]_vars

\* a run whose index lookups all failed ends as a success with no error
C24_LostAtEnd ==
  /\ pc = END
  /\ ~schemaData.hasRoot
  /\ indexFailed
  /\ executionResult # Undefined
  /\ validationErrors = <<>>

\* the batch the context node is to issue in a state with messages msgs
ContextBatch(msgs) == <<TypeLookup("Query"), Search(Last(msgs), 5)>>

\* C25: every generate_schema_context step, also one that follows a
\* recovery node, issues exactly one batch, and the batch holds exactly
\* two lookups: the type lookup of "Query" and one search for the latest
\* entry of messages with limit 5.
C25_ContextLookups ==
  [][pc = "generate_schema_context" =>
       /\ lastUpdate'.calls = <<ContextBatch(messages)>>
       /\ Len(lookupLog') = Len(lookupLog) + 1
       /\ Last(lookupLog').requests = ContextBatch(messages)
       /\ Len(Last(lookupLog').requests) = 2]_vars

C25_Witness ==
  /\ Len(lookupLog) = 3
  /\ lookupLog[1].requests[2].query = "intent"
  /\ lookupLog[2].requests[2].query = "execution_retry"
  /\ lookupLog[3].requests[2].query = "validation_retry"
  /\ lookupLog[3].requests[2].limit = 5

\* C26: after a successful generate_schema_context step schemaContext is
\* the aggregated result the index computed for the batch: its types, its
\* fields, and its related-type set, which holds every type the batch
\* touched.
C26_ContextIsIndexResult ==
  [][(pc = "generate_schema_context" /\ schemaData.hasRoot) =>
       /\ schemaContext' = schemaListLookup(schemaData, ContextBatch(messages))
       /\ schemaContext'.relatedTypes = schemaContext'.types]_vars

\* what survives the round trip: the type and field mappings
C26_MappingsSurvive ==
  [][(pc = "generate_schema_context" /\ schemaData.hasRoot) =>
       LET result == schemaListLookup(schemaData, ContextBatch(messages))
       IN /\ schemaContext'.types = result.types
          /\ schemaContext'.fields = result.fields
          /\ result.relatedTypes # {}
          /\ schemaContext'.relatedTypes = {}]_vars

\* C27: in a run started without retryCount, a validate_query or
\* execute_query step that leaves validationErrors non-empty is followed by
\* the recovery node of that step as long as fewer than MAX_RETRIES
\* recovery passes were taken, as in a run started with retryCount 0.
C27_AbsentCountIsZero ==
  [][(/\ initialRetryCount = UndefinedNumber
      /\ pc \in {"validate_query", "execute_query"}
      /\ pc' # Thrown
      /\ Len(validationErrors') > 0
      /\ Recoveries < MAX_RETRIES) =>
       pc' = IF pc = "validate_query" THEN "handle_validation_error"
                                      ELSE "handle_execution_error"]_vars

\* the same statement for the runs started with retryCount 0
C27_ZeroCountRetries ==
  [][(/\ initialRetryCount = 0
      /\ pc \in {"validate_query", "execute_query"}
      /\ pc' # Thrown
      /\ Len(validationErrors') > 0
      /\ Recoveries < MAX_RETRIES) =>
       pc' = IF pc = "validate_query" THEN "handle_validation_error"
                                      ELSE "handle_execution_error"]_vars

\* a run started without retryCount takes no recovery pass at all
C27_AbsentCountNeverRetries ==
  initialRetryCount = UndefinedNumber =>
    (Recoveries = 0 /\ retryCount = UndefinedNumber)

\* C28: the execution recovery node is entered only from an execute_query
\* step that failed, and then validationErrors holds exactly one entry,
\* the message of that failure, which is what the node reads as
\* validationErrors[0].
C28_ExecutionErrorIsFresh ==
  [][pc' = "handle_execution_error" =>
       /\ pc = "execute_query"
       /\ validationErrors = <<>>
       /\ lastUpdate'.has = {"validationErrors"}
       /\ validationErrors' = lastUpdate'.validationErrors
       /\ Len(validationErrors') = 1
       /\ validationErrors'[1] \in {o.message : o \in FailedOutcomes}]_vars

C28_Witness ==
  /\ pc = "handle_execution_error"
  /\ validationRecoveries = 1
  /\ executionRecoveries = 1
  /\ validationErrors = <<"HTTP error">>

\* C29: no final state holds both an executionResult and errors, and once
\* executionResult is set the run is at END: no node runs after a
\* successful execution.
C29_SuccessExcludesFailure ==
  /\ pc = END => ~(executionResult # Undefined /\ validationErrors # <<>>)
  /\ executionResult # Undefined => (pc = END /\ validationErrors = <<>>)

C29_Witness ==
  /\ pc = END
  /\ executionResult # Undefined
  /\ executionRecoveries > 0
  /\ executorFailed

\* the validator step left no error: an empty list, or no list at all
NoValidationErrors(state) ==
  ~state.validationErrors.defined \/ state.validationErrors.list = <<>>

\* C30: the steps of the chain run in the order builder, validator,
\* executor, none of them twice, and a chain that returns has run all
\* three; executor.call is made exactly when the validator step left no
\* validation error, and when it is not made the chain returns the state
\* the validator step returned, executionResult included.
C30_LinearChain ==
  /\ IsPrefix(chainLog, ChainSteps)
  /\ chainPc = "done" => chainLog = ChainSteps
  /\ executorCalls \in {0, 1}
  /\ executorCalls = 1 =>
       (chainLog = ChainSteps /\ NoValidationErrors(afterValidator))
  /\ (chainLog = ChainSteps /\ executorCalls = 0) =>
       /\ ~NoValidationErrors(afterValidator)
       /\ chainPc = "done"
       /\ chainState = afterValidator
  /\ (chainPc = "done" /\ executorCalls = 1) =>
       /\ chainState.executionResult \in ExecutorTexts
       /\ chainState =
            [afterValidator EXCEPT !.executionResult = chainState.executionResult]

C30_Witness ==
  /\ chainPc = "done"
  /\ chainLog = ChainSteps
  /\ executorCalls = 0
  /\ chainState.validationErrors.list = <<"error1">>
  /\ chainState.executionResult = "earlier response"
  /\ chainState.currentQuery = "query1"

C30_WitnessExecutes ==
  /\ chainPc = "done"
  /\ executorCalls = 1
  /\ ~chainState.validationErrors.defined
  /\ chainState.executionResult = "response"

====
